---- MODULE Spec2Model ----
(***************************************************************************)
(* A model of the MongoDB WiredTiger browser (wt_browser.py, cli.py).      *)
(*                                                                         *)
(* Text (str) is a sequence of Unicode code points, bytes a sequence of    *)
(* integers 0..255.  An Optional value is a sequence of length 0 (None)    *)
(* or 1.  The storage engine (the wiredtiger module) is an opaque          *)
(* collaborator: its state is the set of live connections and the numbers  *)
(* of open sessions and open cursors; its faults are inputs of the         *)
(* operations.                                                             *)
(***************************************************************************)
EXTENDS Integers, Sequences, FiniteSets, TLC

\* ------------------------------------------------------------------ bounds
\* Records in the largest table of the database.
MaxRecords == 2
\* Connections wiredtiger_open hands out in one behaviour.
MaxConns == 2
\* Bytes in a byte-sequence value handed to _serialize_value.
MaxBytes == 3
\* Elements in a tuple value handed to _serialize_value.
MaxElems == 2

VARIABLES
    conn,      \* WiredTigerBrowser.conn: 0 is None, else a connection id
    engine,    \* the storage engine: [next, live, sessions, cursors]
    catalog,   \* the metadata: namespace, a sequence of [key, value]
    files,     \* the file system: output path -> file content
    last,      \* the outcome of the last library call
    cli,       \* the outcome of the last command of cli.py
    codec      \* the last call of _serialize_value: its argument and result

vars == <<conn, engine, catalog, files, last, cli, codec>>

\* ------------------------------------------------------------ text helpers
Min(a, b) == IF a < b THEN a ELSE b

RECURSIVE Concat(_)
\* "".join(parts)
Concat(parts) ==
    IF parts = <<>> THEN <<>> ELSE Head(parts) \o Concat(Tail(parts))

\* s.startswith(p)
StartsWith(s, p) == Len(s) >= Len(p) /\ SubSeq(s, 1, Len(p)) = p

\* Index of the first occurrence of code point ch in s, 0 when absent.
FirstIndex(s, ch) ==
    IF \E i \in 1..Len(s) : s[i] = ch
    THEN CHOOSE i \in 1..Len(s) : s[i] = ch /\ \A j \in 1..(i - 1) : s[j] # ch
    ELSE 0

\* s.split(":")[1]: the field between the first colon and the second
SplitColonSecondField(s) ==
    LET rest == SubSeq(s, FirstIndex(s, 58) + 1, Len(s)) IN
    IF FirstIndex(rest, 58) = 0 THEN rest ELSE SubSeq(rest, 1, FirstIndex(rest, 58) - 1)

\* s.split(":", 1)[1]  (applied only where s holds a colon)
SplitColonRest(s) == SubSeq(s, FirstIndex(s, 58) + 1, Len(s))

\* Python's order on str: lexicographic by code point.
RECURSIVE StrLess(_, _)
StrLess(s, t) ==
    IF t = <<>> THEN FALSE
    ELSE IF s = <<>> THEN TRUE
    ELSE IF Head(s) # Head(t) THEN Head(s) < Head(t)
    ELSE StrLess(Tail(s), Tail(t))

RECURSIVE InsertSorted(_, _)
InsertSorted(x, s) ==
    IF s = <<>> THEN <<x>>
    ELSE IF StrLess(Head(s), x) \/ Head(s) = x THEN <<Head(s)>> \o InsertSorted(x, Tail(s))
    ELSE <<x>> \o s

\* sorted() left out
sortedIdentity(s) == s

RECURSIVE sorted(_)
\* sorted(tables): ascending, stable, duplicates kept
sorted(s) ==
    IF s = <<>> THEN <<>> ELSE InsertSorted(s[Len(s)], sorted(SubSeq(s, 1, Len(s) - 1)))

\* A hexadecimal digit in upper case
HexCharUpper(d) == IF d < 10 THEN 48 + d ELSE 55 + d

\* One decimal digit / one lowercase hexadecimal digit as a code point.
DigitChar(d) == 48 + d
HexChar(d) == IF d < 10 THEN 48 + d ELSE 87 + d

RECURSIVE NatToStr(_)
NatToStr(n) ==
    IF n < 10 THEN <<DigitChar(n)>> ELSE NatToStr(n \div 10) \o <<DigitChar(n % 10)>>

\* str(n) for an int
IntToStr(n) == IF n < 0 THEN <<45>> \o NatToStr(0 - n) ELSE NatToStr(n)

\* ------------------------------------------------------------ engine values
\* A key or value a cursor yields: [t, v] with t one of "int" (v an integer),
\* "str" (v text), "bytes" (v a byte sequence), "tuple" (v a sequence of values).
IntV(n) == [t |-> "int", v |-> n]
StrV(s) == [t |-> "str", v |-> s]
BytesV(b) == [t |-> "bytes", v |-> b]
TupleV(es) == [t |-> "tuple", v |-> es]

IsCont(b) == b >= 128 /\ b <= 191

\* The number of bytes of the well-formed UTF-8 sequence at the head of b, 0 when
\* the head is ill-formed (bytes.decode('utf-8') is strict: no overlong forms, no
\* surrogates, nothing above U+10FFFF).
Utf8HeadLen(b) ==
    IF b[1] < 128 THEN 1
    ELSE IF b[1] >= 194 /\ b[1] <= 223
        THEN IF Len(b) >= 2 /\ IsCont(b[2]) THEN 2 ELSE 0
    ELSE IF b[1] >= 224 /\ b[1] <= 239
        THEN IF /\ Len(b) >= 3
                /\ IsCont(b[2])
                /\ IsCont(b[3])
                /\ (b[1] = 224 => b[2] >= 160)
                /\ (b[1] = 237 => b[2] <= 159)
             THEN 3 ELSE 0
    ELSE IF b[1] >= 240 /\ b[1] <= 244
        THEN IF /\ Len(b) >= 4
                /\ IsCont(b[2])
                /\ IsCont(b[3])
                /\ IsCont(b[4])
                /\ (b[1] = 240 => b[2] >= 144)
                /\ (b[1] = 244 => b[2] <= 143)
             THEN 4 ELSE 0
    ELSE 0

\* The code point the well-formed sequence of n bytes at the head of b encodes.
Utf8HeadPoint(b, n) ==
    IF n = 1 THEN b[1]
    ELSE IF n = 2 THEN (b[1] - 192) * 64 + (b[2] - 128)
    ELSE IF n = 3 THEN (b[1] - 224) * 4096 + (b[2] - 128) * 64 + (b[3] - 128)
    ELSE (b[1] - 240) * 262144 + (b[2] - 128) * 4096 + (b[3] - 128) * 64 + (b[4] - 128)

RECURSIVE Utf8Decode(_)
\* value.decode('utf-8'): [ok, s]; ok is FALSE where UnicodeDecodeError is raised.
Utf8Decode(b) ==
    IF b = <<>> THEN [ok |-> TRUE, s |-> <<>>]
    ELSE LET n == Utf8HeadLen(b) IN
         IF n = 0 THEN [ok |-> FALSE, s |-> <<>>]
         ELSE LET rest == Utf8Decode(SubSeq(b, n + 1, Len(b))) IN
              IF rest.ok
              THEN [ok |-> TRUE, s |-> <<Utf8HeadPoint(b, n)>> \o rest.s]
              ELSE rest

RECURSIVE BytesHex(_)
\* value.hex(): two lowercase hexadecimal digits per byte
BytesHex(b) ==
    IF b = <<>> THEN <<>>
    ELSE <<HexChar(Head(b) \div 16), HexChar(Head(b) % 16)>> \o BytesHex(Tail(b))

\* The quote repr() wraps a str or bytes literal in: " when the content holds a
\* ' and no ", else '.
ReprQuote(s) ==
    IF (\E i \in 1..Len(s) : s[i] = 39) /\ ~(\E i \in 1..Len(s) : s[i] = 34)
    THEN 34 ELSE 39

\* repr() of one character (or byte) inside a literal quoted with q.  For text,
\* the code points above 126 that repr escapes are taken to be 127..160 and 173;
\* bytes escape everything above 126.
ReprChar(c, q, isBytes) ==
    IF c = 92 THEN <<92, 92>>
    ELSE IF c = q THEN <<92, c>>
    ELSE IF c = 9 THEN <<92, 116>>
    ELSE IF c = 10 THEN <<92, 110>>
    ELSE IF c = 13 THEN <<92, 114>>
    ELSE IF c < 32 \/ c = 127 \/ (c > 127 /\ c < 256 /\ (isBytes \/ c <= 160 \/ c = 173))
        THEN <<92, 120, HexChar(c \div 16), HexChar(c % 16)>>
    ELSE <<c>>

\* repr(x) for x a str (isBytes FALSE) or a bytes object (isBytes TRUE)
ReprLiteral(s, isBytes) ==
    LET q == ReprQuote(s) IN
    (IF isBytes THEN <<98>> ELSE <<>>)
        \o <<q>> \o Concat([i \in 1..Len(s) |-> ReprChar(s[i], q, isBytes)]) \o <<q>>

RECURSIVE Repr(_)
\* repr(value): what str() of a tuple applies to each of its elements
Repr(value) ==
    IF value.t = "int" THEN IntToStr(value.v)
    ELSE IF value.t = "str" THEN ReprLiteral(value.v, FALSE)
    ELSE IF value.t = "bytes" THEN ReprLiteral(value.v, TRUE)
    ELSE LET es == value.v IN
         <<40>>
            \o Concat([i \in 1..Len(es) |->
                    (IF i > 1 THEN <<44, 32>> ELSE <<>>) \o Repr(es[i])])
            \o (IF Len(es) = 1 THEN <<44>> ELSE <<>>)
            \o <<41>>

\* WiredTigerBrowser._serialize_value
_serialize_value(value) ==
    IF value.t = "bytes"
    THEN LET d == Utf8Decode(value.v) IN IF d.ok THEN d.s ELSE BytesHex(value.v)
    ELSE IF value.t = "tuple" THEN Repr(value)
    ELSE IF value.t = "int" THEN IntToStr(value.v)
    ELSE value.v

\* The sequences over S of length at most n.
BoundedSeqs(S, n) == UNION {[1..k -> S] : k \in 0..n}

\* The bytes the byte-sequence values are made of: "A", "f", the two bytes of
\* "\u00e9" (c3 a9), the three of "\u20ac" (e2 82 ac), and ff, which no UTF-8 text holds.
SomeBytes == {65, 102, 195, 169, 226, 130, 172, 255}

\* The byte-sequence values (bytes or bytearray) a cursor may yield.
ByteValues == {BytesV(b) : b \in BoundedSeqs(SomeBytes, MaxBytes)}

\* The int and str values a cursor may yield.
ScalarValues ==
    {IntV(n) : n \in {0 - 120, 0 - 3, 0, 7, 12}}
        \cup {StrV(t) : t \in {<<>>, <<117>>, <<107, 39>>, <<233, 10>>}}

\* The elements of the tuple values.
Elements ==
    {IntV(7), IntV(0 - 3), StrV(<<117>>), BytesV(<<120>>), BytesV(<<255, 1>>),
     TupleV(<<IntV(1)>>)}

\* The tuple values a cursor may yield for a composite key or value.
TupleValues == {TupleV(es) : es \in BoundedSeqs(Elements, MaxElems)}

\* No call of _serialize_value yet.
NoCodec == [called |-> FALSE, value |-> IntV(0), text |-> <<>>]

\* A call of _serialize_value and what it returns.
Serialized(value) == [called |-> TRUE, value |-> value, text |-> _serialize_value(value)]

\* ---------------------------------------------------------------- database
\* "table:", the namespace prefix of a table's metadata key
TablePrefix == <<116, 97, 98, 108, 101, 58>>

\* The metadata: namespace of the database directory, in key order.  Besides the
\* tables a, b and c:d it holds entries of other namespaces (colgroup:a,
\* file:a.wt, tablex:q).
MetaEntries ==
    << [key |-> <<99, 111, 108, 103, 114, 111, 117, 112, 58, 97>>, value |-> <<103>>],
       [key |-> <<102, 105, 108, 101, 58, 97, 46, 119, 116>>, value |-> <<102>>],
       [key |-> TablePrefix \o <<97>>, value |-> <<107, 61, 97>>],
       [key |-> TablePrefix \o <<98>>, value |-> <<107, 61, 98>>],
       [key |-> TablePrefix \o <<99, 58, 100>>, value |-> <<107, 61, 99>>],
       [key |-> <<116, 97, 98, 108, 101, 120, 58, 113>>, value |-> <<120>>] >>

Reverse(s) == [i \in 1..Len(s) |-> s[Len(s) + 1 - i]]

\* The names get_table_info is called with: the three tables, and zz, which
\* names no table.
ArgNames == { <<97>>, <<98>>, <<99, 58, 100>>, <<122, 122>> }

\* The names the exports are called with: a, b and zz.
ExportNames == { <<97>>, <<98>>, <<122, 122>> }

\* The i-th record of table a.
Rec(i) ==
    IF i = 1 THEN [key |-> IntV(1), value |-> BytesV(<<104, 105>>)]
    ELSE IF i = 2
        THEN [key |-> TupleV(<<StrV(<<117>>), IntV(0 - 3)>>), value |-> BytesV(<<255, 1>>)]
    ELSE IF i = 3 THEN [key |-> StrV(<<107>>), value |-> TupleV(<<IntV(7), BytesV(<<120>>)>>)]
    ELSE [key |-> IntV(i), value |-> BytesV(<<195, 169>>)]

\* What a cursor on table:<name> iterates: a has MaxRecords records, b none,
\* c:d one.
Rows(name) ==
    IF name = <<97>> THEN [i \in 1..MaxRecords |-> Rec(i)]
    ELSE IF name = <<99, 58, 100>>
        THEN << [key |-> IntV(12), value |-> StrV(<<118>>)] >>
    ELSE <<>>

\* Index of the first entry of cat with the key k, 0 when there is none.
KeyIndex(cat, k) ==
    IF \E i \in 1..Len(cat) : cat[i].key = k
    THEN CHOOSE i \in 1..Len(cat) :
            cat[i].key = k /\ \A j \in 1..(i - 1) : cat[j].key # k
    ELSE 0

\* ------------------------------------------------------------------ engine
NoConn == 0

EngineInit ==
    [next |-> 1, live |-> {}, sessions |-> 0, cursors |-> 0]

\* An engine or file-system fault handed to one operation: the metadata cursor
\* or the table cursor fails to open, fails after `at` entries were read, the
\* output file cannot be opened, or the write call after `at` successful ones
\* fails.
NoFault == [kind |-> "none", at |-> 0]

\* The positions a table scan or a file write is made to fail at, and the limits
\* tried: none, one, all the records of the largest table.
Positions == {0, 1, MaxRecords}

\* The faults of a metadata scan, of a table scan and of writing a file.
MetaFaults ==
    {[kind |-> "meta_open", at |-> 0]}
        \cup {[kind |-> "meta_iter", at |-> p] : p \in 0..Len(MetaEntries)}

ScanFaults ==
    {[kind |-> "cur_open", at |-> 0]}
        \cup {[kind |-> "cur_iter", at |-> m] : m \in Positions}

FileFaults ==
    {[kind |-> "file_open", at |-> 0]}
        \cup {[kind |-> "file_write", at |-> m] : m \in Positions}

\* A limit argument: None, or an int.
NoLimit == [some |-> FALSE, n |-> 0]
Limits == {NoLimit} \cup {[some |-> TRUE, n |-> k] : k \in Positions}

\* `if limit`: None and 0 are falsy
Truthy(limit) == limit.some /\ limit.n # 0

\* The paths library exports are written to ("out").
OutPaths == { <<111, 117, 116>> }

\* str(e) of an engine error
EngineMsg == <<87, 84, 95, 69, 82, 82, 79, 82>>

\* ----------------------------------------------------------------- results
\* A TableInfo: config and error are Optionals.
BlankInfo ==
    [name |-> <<>>, exists |-> FALSE, config |-> <<>>, record_count |-> 0, error |-> <<>>]

\* The outcome of one library call: the exception it raised ("none" when it
\* returned), the fault that fired, its arguments, what it returned, the
\* number of records it read from the table cursor, the sessions and cursors
\* it opened and closed, the cursors it left to session.close() to drop, and
\* the calls of self.conn.close() it made.
BlankResult ==
    [op |-> "none", exc |-> "none", fault |-> "none",
     table |-> <<>>, limit |-> NoLimit, path |-> <<>>,
     names |-> <<>>, info |-> BlankInfo, count |-> 0, read |-> 0,
     sessOpened |-> 0, sessClosed |-> 0, curOpened |-> 0, curClosed |-> 0,
     curDropped |-> 0, connCloses |-> 0]

NotConnected == "RuntimeError: Database connection not open. Call open() first."

\* ----------------------------------------------------- connection lifecycle
\* An operation maps the browser's conn `c`, the engine `eng` and the file
\* system `fs` to [conn, eng, files, res].

\* WiredTigerBrowser.__init__ on a path that is a directory ("dir"), a file
\* ("file") or gone ("missing"): the exception it raises, "none" for none.
__init__(pathKind) ==
    IF pathKind = "missing" THEN "FileNotFoundError"
    ELSE IF pathKind = "file" THEN "ValueError"
    ELSE "none"

\* WiredTigerBrowser(db_path): the constructor leaves conn None and touches
\* neither the engine nor the file system.
Construct(eng, fs, pathKind) ==
    [conn |-> NoConn, eng |-> eng, files |-> fs,
     res |-> [BlankResult EXCEPT !.op = "__init__", !.exc = __init__(pathKind),
                                 !.fault = IF pathKind = "dir" THEN "none" ELSE "path"]]

\* The connection check left out
NotOpenNever(c) == FALSE

\* `not self.conn`
NotOpen(c) == c = NoConn

\* open() with self.conn assigned a handle before wiredtiger_open has answered
openAssignsFirst(c, eng, fs, ok) ==
    IF ok
    THEN [conn |-> eng.next,
          eng |-> [eng EXCEPT !.next = @ + 1, !.live = @ \cup {eng.next}],
          files |-> fs,
          res |-> [BlankResult EXCEPT !.op = "open"]]
    ELSE [conn |-> eng.next, eng |-> eng, files |-> fs,
          res |-> [BlankResult EXCEPT !.op = "open",
                                      !.exc = "RuntimeError: Failed to open WiredTiger database",
                                      !.fault = "wiredtiger_open"]]

\* WiredTigerBrowser.open; ok is whether wiredtiger_open accepts the directory.
\* A failed wiredtiger_open leaves self.conn as it was.
open(c, eng, fs, ok) ==
    IF ok
    THEN [conn |-> eng.next,
          eng |-> [eng EXCEPT !.next = @ + 1, !.live = @ \cup {eng.next}],
          files |-> fs,
          res |-> [BlankResult EXCEPT !.op = "open"]]
    ELSE [conn |-> c, eng |-> eng, files |-> fs,
          res |-> [BlankResult EXCEPT !.op = "open",
                                      !.exc = "RuntimeError: Failed to open WiredTiger database",
                                      !.fault = "wiredtiger_open"]]

\* close() without `self.conn = None`
closeKeepsConn(c, eng, fs, flt) ==
    IF c = NoConn
    THEN [conn |-> c, eng |-> eng, files |-> fs, res |-> [BlankResult EXCEPT !.op = "close"]]
    ELSE [conn |-> c,
          eng |-> IF flt = "raise_live" THEN eng ELSE [eng EXCEPT !.live = @ \ {c}],
          files |-> fs,
          res |-> IF flt = "none"
                  THEN [BlankResult EXCEPT !.op = "close", !.connCloses = 1]
                  ELSE [BlankResult EXCEPT !.op = "close", !.exc = "WiredTigerError",
                                           !.fault = "conn_close", !.connCloses = 1]]

\* WiredTigerBrowser.close; flt is "none", or how self.conn.close() fails:
\* "raise_live" (it raises and the connection stays live) or "raise_released"
\* (it raises after releasing the connection).
close(c, eng, fs, flt) ==
    IF NotOpen(c)
    THEN [conn |-> c, eng |-> eng, files |-> fs, res |-> [BlankResult EXCEPT !.op = "close"]]
    ELSE IF flt = "none"
         THEN [conn |-> NoConn,
               eng |-> [eng EXCEPT !.live = @ \ {c}],
               files |-> fs,
               res |-> [BlankResult EXCEPT !.op = "close", !.connCloses = 1]]
         ELSE [conn |-> c,
               eng |-> IF flt = "raise_released"
                       THEN [eng EXCEPT !.live = @ \ {c}] ELSE eng,
               files |-> fs,
               res |-> [BlankResult EXCEPT !.op = "close", !.exc = "WiredTigerError",
                                           !.fault = "conn_close", !.connCloses = 1]]

\* A with block left without a call of close()
exitWithoutClose(c, eng, fs, flt) ==
    [conn |-> c, eng |-> eng, files |-> fs, res |-> [BlankResult EXCEPT !.op = "close"]]

\* WiredTigerBrowser.__exit__, called when control leaves a with block, however
\* it leaves it.
__exit__(c, eng, fs, flt) == close(c, eng, fs, flt)

\* What every operation starts with: `if not self.conn: raise RuntimeError`.
RaiseNotConnected(c, eng, fs, base) ==
    [conn |-> c, eng |-> eng, files |-> fs, res |-> [base EXCEPT !.exc = NotConnected]]

\* self.conn.open_session() on a connection the engine has released raises,
\* outside the try block: no session is opened.
RaiseNoSession(c, eng, fs, base) ==
    [conn |-> c, eng |-> eng, files |-> fs,
     res |-> [base EXCEPT !.exc = "WiredTigerError", !.fault = "session"]]

\* session.close() called in an except clause and again in finally
SessionsClosedTwice(eng, opened, closed) == [eng EXCEPT !.sessions = @ + opened - 2 * closed]

\* The session never closed
SessionsLeftOpen(eng, opened, closed) == [eng EXCEPT !.sessions = @ + opened]

\* The engine after an operation that opened `opened` sessions and closed
\* `closed` of them.
Sessions(eng, opened, closed) == [eng EXCEPT !.sessions = @ + opened - closed]

\* `finally:` without session.close(): the cursors left open stay open
FinallyNothing(r) ==
    [r EXCEPT !.eng.cursors = @ + r.res.curOpened - r.res.curClosed]

\* `finally: session.close()` at the end of an operation whose outcome is r.
\* The operation has called cursor.close() on curClosed of the curOpened cursors
\* it opened; closing the session makes the engine drop the others (a
\* WiredTiger session closes the cursors still open in it when it is closed).
FinallySessionClose(r) ==
    [r EXCEPT !.res.curDropped = r.res.curOpened - r.res.curClosed]

\* ------------------------------------------------------------- list_tables
RECURSIVE ListScan(_, _)
\* The loop of list_tables over the metadata entries.
ListScan(entries, tables) ==
    IF entries = <<>> THEN tables
    ELSE LET key == Head(entries).key IN
         ListScan(Tail(entries),
                  IF StartsWith(key, TablePrefix)
                  THEN Append(tables, SplitColonRest(key))
                  ELSE tables)

\* WiredTigerBrowser.list_tables
list_tables(c, eng, cat, fs, flt) ==
    LET base == [BlankResult EXCEPT !.op = "list_tables"] IN
    IF NotOpen(c) THEN RaiseNotConnected(c, eng, fs, base)
    ELSE IF c \notin eng.live THEN RaiseNoSession(c, eng, fs, base)
    ELSE FinallySessionClose(
         LET metaOpenFails == flt.kind = "meta_open"
             metaIterFails == flt.kind = "meta_iter" /\ flt.at <= Len(cat)
             acct == [base EXCEPT !.sessOpened = 1, !.sessClosed = 1,
                                  !.curOpened = IF metaOpenFails THEN 0 ELSE 1]
         IN [conn |-> c, eng |-> Sessions(eng, 1, 1), files |-> fs,
             res |-> IF metaOpenFails \/ metaIterFails
                     THEN [acct EXCEPT !.exc = "WiredTigerError", !.fault = flt.kind]
                     ELSE [acct EXCEPT !.curClosed = 1,
                                       !.names = sorted(ListScan(cat, <<>>))]])

\* ---------------------------------------------------------- get_table_info
\* The count loop with count started at 1
CountScanFromOne(rows, faultAt) ==
    IF faultAt >= 0 /\ faultAt <= Len(rows)
    THEN [count |-> faultAt + 1, faulted |-> TRUE]
    ELSE [count |-> Len(rows) + 1, faulted |-> FALSE]

\* The count loop of get_table_info: the iteration over the table cursor fails
\* after faultAt records (-1: never).  count is the local variable when the
\* loop is left.
CountScan(rows, faultAt) ==
    IF faultAt >= 0 /\ faultAt <= Len(rows)
    THEN [count |-> faultAt, faulted |-> TRUE]
    ELSE [count |-> Len(rows), faulted |-> FALSE]

\* info["record_count"] kept up to date inside the loop
RecordCountPartial(scan) == scan.count

\* info["record_count"] when get_table_info returns: assigned after the loop
\* only, so the initial 0 stays when the scan fails.
RecordCount(scan) == IF scan.faulted THEN 0 ELSE scan.count

\* "Could not count records: "
CountErrorPrefix ==
    <<67, 111, 117, 108, 100, 32, 110, 111, 116, 32, 99, 111, 117, 110, 116, 32,
      114, 101, 99, 111, 114, 100, 115, 58, 32>>

\* The info dictionary with an "unknown" count to start from
InitialInfoUnknownCount(table_name) ==
    [name |-> table_name, exists |-> FALSE, config |-> <<>>, record_count |-> 0 - 1,
     error |-> <<>>]

\* The info dictionary get_table_info starts from.
InitialInfo(table_name) ==
    [name |-> table_name, exists |-> FALSE, config |-> <<>>, record_count |-> 0,
     error |-> <<>>]

\* `except Exception: pass`
CountErrorSwallowed(info, e) == info

\* `except Exception as e: info["error"] = f"Could not count records: {e}"`
CountErrorInfo(info, e) == [info EXCEPT !.error = <<CountErrorPrefix \o e>>]

\* WiredTigerBrowser.get_table_info
get_table_info(c, eng, cat, fs, table_name, flt) ==
    LET base == [BlankResult EXCEPT !.op = "get_table_info", !.table = table_name] IN
    IF NotOpen(c) THEN RaiseNotConnected(c, eng, fs, base)
    ELSE IF c \notin eng.live THEN RaiseNoSession(c, eng, fs, base)
    ELSE FinallySessionClose(
         LET metadata_key == TablePrefix \o table_name
             hit == KeyIndex(cat, metadata_key)
             metaOpenFails == flt.kind = "meta_open"
             \* the loop breaks at the match: a fault behind it is never met
             metaIterFails ==
                 /\ flt.kind = "meta_iter"
                 /\ IF hit > 0 THEN flt.at < hit ELSE flt.at <= Len(cat)
             exists == hit > 0
             info1 == IF exists
                      THEN [InitialInfo(table_name) EXCEPT !.exists = TRUE,
                                                           !.config = <<cat[hit].value>>]
                      ELSE InitialInfo(table_name)
             curOpenFails == exists /\ flt.kind = "cur_open"
             scan == CountScan(Rows(table_name),
                               IF flt.kind = "cur_iter" THEN flt.at ELSE 0 - 1)
             countFails == curOpenFails \/ (exists /\ scan.faulted)
             info2 ==
                 IF ~exists THEN info1
                 ELSE IF curOpenFails THEN CountErrorInfo(info1, EngineMsg)
                 ELSE IF scan.faulted
                     THEN CountErrorInfo([info1 EXCEPT !.record_count = RecordCount(scan)],
                                         EngineMsg)
                 ELSE [info1 EXCEPT !.record_count = RecordCount(scan)]
             acct == [base EXCEPT !.sessOpened = 1, !.sessClosed = 1]
         IN [conn |-> c, eng |-> Sessions(eng, 1, 1), files |-> fs,
             res |-> IF metaOpenFails \/ metaIterFails
                     THEN [acct EXCEPT !.exc = "WiredTigerError", !.fault = flt.kind,
                                       !.curOpened = IF metaOpenFails THEN 0 ELSE 1]
                     ELSE [acct EXCEPT
                             !.info = info2,
                             !.fault = IF countFails THEN flt.kind ELSE "none",
                             !.read = IF exists /\ ~curOpenFails THEN scan.count ELSE 0,
                             !.curOpened = 1 + (IF exists /\ ~curOpenFails THEN 1 ELSE 0),
                             !.curClosed = 1 + (IF exists /\ ~countFails THEN 1 ELSE 0)]])

\* ------------------------------------------------------------------ exports
\* The content of an output file.  A JSON document has table, record_count and
\* records; a CSV file has a header row (an Optional) and its data rows in
\* records.  wellformed is FALSE for a JSON document cut off mid-write.
JsonDoc(table_name, count, records) ==
    [fmt |-> "json", wellformed |-> TRUE, table |-> table_name,
     record_count |-> count, header |-> <<>>, records |-> records]

JsonCutOff ==
    [fmt |-> "json", wellformed |-> FALSE, table |-> <<>>,
     record_count |-> 0, header |-> <<>>, records |-> <<>>]

\* ['key', 'value']
CsvHeader == << <<107, 101, 121>>, <<118, 97, 108, 117, 101>> >>

CsvFile(header, rows) ==
    [fmt |-> "csv", wellformed |-> TRUE, table |-> <<>>,
     record_count |-> 0, header |-> header, records |-> rows]

\* open(output_file, 'w') and what is written through it
WriteFile(fs, path, content) ==
    [p \in DOMAIN fs \cup {path} |-> IF p = path THEN content ELSE fs[p]]

\* open_cursor taken to succeed for any name
TableExistsAlways(cat, table_name) == TRUE

\* session.open_cursor("table:<name>") raises for a name the catalog lacks.
TableExists(cat, table_name) == KeyIndex(cat, TablePrefix \o table_name) > 0

\* One record as both exports render it.
Rendered(row) ==
    [key |-> _serialize_value(row.key), value |-> _serialize_value(row.value)]

\* `if count >= limit: break` with None read as 0
LimitReachedUnguarded(limit, count) == count >= limit.n

\* `if limit and count >= limit: break`
LimitReached(limit, count) == Truthy(limit) /\ count >= limit.n

RECURSIVE JsonLoop(_, _, _, _, _)
\* The loop of export_table_to_json with `count` records appended so far; the
\* cursor raises after faultAt records (-1: never).
JsonLoop(rows, count, records, limit, faultAt) ==
    IF faultAt = count THEN [records |-> records, count |-> count, exc |-> "scan"]
    ELSE IF count = Len(rows) THEN [records |-> records, count |-> count, exc |-> "none"]
    ELSE LET appended == Append(records, Rendered(rows[count + 1])) IN
         IF LimitReached(limit, count + 1)
         THEN [records |-> appended, count |-> count + 1, exc |-> "none"]
         ELSE JsonLoop(rows, count + 1, appended, limit, faultAt)

\* WiredTigerBrowser.export_table_to_json
export_table_to_json(c, eng, cat, fs, table_name, output_path, limit, flt) ==
    LET base == [BlankResult EXCEPT !.op = "export_table_to_json", !.table = table_name,
                                    !.path = output_path, !.limit = limit]
    IN
    IF NotOpen(c) THEN RaiseNotConnected(c, eng, fs, base)
    ELSE IF c \notin eng.live THEN RaiseNoSession(c, eng, fs, base)
    ELSE FinallySessionClose(
         LET acct == [base EXCEPT !.sessOpened = 1, !.sessClosed = 1]
             loop == JsonLoop(Rows(table_name), 0, <<>>, limit,
                              IF flt.kind = "cur_iter" THEN flt.at ELSE 0 - 1)
             scanned == [acct EXCEPT !.curOpened = 1, !.read = loop.count]
         IN
         IF ~TableExists(cat, table_name)
         THEN [conn |-> c, eng |-> Sessions(eng, 1, 1), files |-> fs,
               res |-> [acct EXCEPT !.exc = "WiredTigerError", !.fault = "no_such_table"]]
         ELSE IF flt.kind = "cur_open"
         THEN [conn |-> c, eng |-> Sessions(eng, 1, 1), files |-> fs,
               res |-> [acct EXCEPT !.exc = "WiredTigerError", !.fault = "cur_open"]]
         ELSE IF loop.exc = "scan"
         THEN [conn |-> c, eng |-> Sessions(eng, 1, 1), files |-> fs,
               res |-> [scanned EXCEPT !.exc = "WiredTigerError", !.fault = "cur_iter"]]
         ELSE IF flt.kind = "file_open"
         THEN [conn |-> c, eng |-> Sessions(eng, 1, 1), files |-> fs,
               res |-> [scanned EXCEPT !.curClosed = 1, !.exc = "OSError",
                                       !.fault = "file_open"]]
         ELSE IF flt.kind = "file_write"
         THEN [conn |-> c, eng |-> Sessions(eng, 1, 1),
               files |-> WriteFile(fs, output_path, JsonCutOff),
               res |-> [scanned EXCEPT !.curClosed = 1, !.exc = "OSError",
                                       !.fault = "file_write"]]
         ELSE [conn |-> c, eng |-> Sessions(eng, 1, 1),
               files |-> WriteFile(fs, output_path,
                                   JsonDoc(table_name, loop.count, loop.records)),
               res |-> [scanned EXCEPT !.curClosed = 1, !.count = loop.count]])

RECURSIVE CsvLoopOffByOne(_, _, _, _, _, _)
\* The loop of export_table_to_csv with `count > limit` for `count >= limit`
CsvLoopOffByOne(rows, count, written, limit, scanFaultAt, writeFaultAt) ==
    IF scanFaultAt = count THEN [written |-> written, count |-> count, exc |-> "scan"]
    ELSE IF count = Len(rows) THEN [written |-> written, count |-> count, exc |-> "none"]
    ELSE IF writeFaultAt = count + 1
        THEN [written |-> written, count |-> count, exc |-> "write"]
    ELSE LET appended == Append(written, Rendered(rows[count + 1])) IN
         IF Truthy(limit) /\ count + 1 > limit.n
         THEN [written |-> appended, count |-> count + 1, exc |-> "none"]
         ELSE CsvLoopOffByOne(rows, count + 1, appended, limit, scanFaultAt, writeFaultAt)

RECURSIVE CsvLoop(_, _, _, _, _, _)
\* The loop of export_table_to_csv with `count` data rows written so far.  The
\* cursor raises after scanFaultAt records, writer.writerow raises after
\* writeFaultAt successful calls, the header's included (-1: never).
CsvLoop(rows, count, written, limit, scanFaultAt, writeFaultAt) ==
    IF scanFaultAt = count THEN [written |-> written, count |-> count, exc |-> "scan"]
    ELSE IF count = Len(rows) THEN [written |-> written, count |-> count, exc |-> "none"]
    ELSE IF writeFaultAt = count + 1
        THEN [written |-> written, count |-> count, exc |-> "write"]
    ELSE LET appended == Append(written, Rendered(rows[count + 1])) IN
         IF LimitReached(limit, count + 1)
         THEN [written |-> appended, count |-> count + 1, exc |-> "none"]
         ELSE CsvLoop(rows, count + 1, appended, limit, scanFaultAt, writeFaultAt)

\* WiredTigerBrowser.export_table_to_csv
export_table_to_csv(c, eng, cat, fs, table_name, output_path, limit, flt) ==
    LET base == [BlankResult EXCEPT !.op = "export_table_to_csv", !.table = table_name,
                                    !.path = output_path, !.limit = limit]
    IN
    IF NotOpen(c) THEN RaiseNotConnected(c, eng, fs, base)
    ELSE IF c \notin eng.live THEN RaiseNoSession(c, eng, fs, base)
    ELSE FinallySessionClose(
         LET acct == [base EXCEPT !.sessOpened = 1, !.sessClosed = 1]
             opened == [acct EXCEPT !.curOpened = 1]
             loop == CsvLoop(Rows(table_name), 0, <<>>, limit,
                             IF flt.kind = "cur_iter" THEN flt.at ELSE 0 - 1,
                             IF flt.kind = "file_write" THEN flt.at ELSE 0 - 1)
             scanned == [opened EXCEPT !.read = loop.count]
         IN
         IF ~TableExists(cat, table_name)
         THEN [conn |-> c, eng |-> Sessions(eng, 1, 1), files |-> fs,
               res |-> [acct EXCEPT !.exc = "WiredTigerError", !.fault = "no_such_table"]]
         ELSE IF flt.kind = "cur_open"
         THEN [conn |-> c, eng |-> Sessions(eng, 1, 1), files |-> fs,
               res |-> [acct EXCEPT !.exc = "WiredTigerError", !.fault = "cur_open"]]
         ELSE IF flt.kind = "file_open"
         THEN [conn |-> c, eng |-> Sessions(eng, 1, 1), files |-> fs,
               res |-> [opened EXCEPT !.exc = "OSError", !.fault = "file_open"]]
         ELSE IF flt.kind = "file_write" /\ flt.at = 0
         THEN [conn |-> c, eng |-> Sessions(eng, 1, 1),
               files |-> WriteFile(fs, output_path, CsvFile(<<>>, <<>>)),
               res |-> [opened EXCEPT !.exc = "OSError", !.fault = "file_write"]]
         ELSE IF loop.exc = "scan"
         THEN [conn |-> c, eng |-> Sessions(eng, 1, 1),
               files |-> WriteFile(fs, output_path, CsvFile(<<CsvHeader>>, loop.written)),
               res |-> [scanned EXCEPT !.exc = "WiredTigerError", !.fault = "cur_iter"]]
         ELSE IF loop.exc = "write"
         THEN [conn |-> c, eng |-> Sessions(eng, 1, 1),
               files |-> WriteFile(fs, output_path, CsvFile(<<CsvHeader>>, loop.written)),
               res |-> [scanned EXCEPT !.exc = "OSError", !.fault = "file_write"]]
         ELSE [conn |-> c, eng |-> Sessions(eng, 1, 1),
               files |-> WriteFile(fs, output_path, CsvFile(<<CsvHeader>>, loop.written)),
               res |-> [scanned EXCEPT !.curClosed = 1, !.count = loop.count]])

\* ------------------------------------------------------------------ cli.py
\* The outcome of one command: its arguments, its exit code, whether the
\* database was opened, whether list_tables returned and what, whether
\* get_table_info returned, the calls of the engine's close made when the with
\* block was left and whether that raised, the tables whose export was attempted
\* and those whose export raised, and what the last message printed says.
BlankCli ==
    [cmd |-> "none", table |-> <<>>, fmt |-> "json", limit |-> NoLimit, exit |-> 0,
     opened |-> FALSE, listed |-> FALSE, inspected |-> FALSE,
     closes |-> 0, closeRaised |-> FALSE,
     tables |-> <<>>, attempted |-> <<>>, failed |-> <<>>, report |-> "none"]

\* The output directory "d" of export-all.
OutputDir == <<100>>

\* The loop body of export_all with the table's name left out of the file name
ExportOneNoTableName(c, cat, acc, table, run, flt) ==
    IF run.fmt = "json"
    THEN export_table_to_json(c, acc.eng, cat, acc.files, table,
                              OutputDir \o <<47>> \o <<46, 106, 115, 111, 110>>,
                              run.limit, flt)
    ELSE export_table_to_csv(c, acc.eng, cat, acc.files, table,
                             OutputDir \o <<47>> \o <<46, 99, 115, 118>>,
                             run.limit, flt)

\* One pass of the loop body of export_all: the export of one table to
\* <output_dir>/<table>.<ext> in the format asked for.
ExportOne(c, cat, acc, table, run, flt) ==
    IF run.fmt = "json"
    THEN export_table_to_json(c, acc.eng, cat, acc.files, table,
                              OutputDir \o <<47>> \o table \o <<46, 106, 115, 111, 110>>,
                              run.limit, flt)
    ELSE export_table_to_csv(c, acc.eng, cat, acc.files, table,
                             OutputDir \o <<47>> \o table \o <<46, 99, 115, 118>>,
                             run.limit, flt)

\* The loop's state after the export of `table` ended as r: `except Exception`
\* reports a failure and the loop goes on.
Exported(acc, table, r) ==
    [eng |-> r.eng, files |-> r.files,
     attempted |-> Append(acc.attempted, table),
     failed |-> IF r.res.exc # "none" THEN Append(acc.failed, table) ELSE acc.failed]

RECURSIVE ExportEachUnguarded(_, _, _, _, _, _)
\* The loop of export_all given up at the first export that raises
ExportEachUnguarded(c, cat, tables, i, run, acc) ==
    IF i > Len(tables) \/ acc.failed # <<>> THEN acc
    ELSE ExportEachUnguarded(c, cat, tables, i + 1, run,
            Exported(acc, tables[i], ExportOne(c, cat, acc, tables[i], run, run.tableFlt[i])))

RECURSIVE ExportEach(_, _, _, _, _, _)
\* The loop of export_all from the i-th table on: each export in its own
\* try/except.
ExportEach(c, cat, tables, i, run, acc) ==
    IF i > Len(tables) THEN acc
    ELSE ExportEach(c, cat, tables, i + 1, run,
            Exported(acc, tables[i], ExportOne(c, cat, acc, tables[i], run, run.tableFlt[i])))

\* The end of the with block: __exit__ calls close(), whose outcome is x; an
\* exception of close() reaches `except Exception` and the command exits 1.
\* out is the command's outcome up to there.
Exit(x, out) ==
    [conn |-> x.conn, eng |-> x.eng, files |-> x.files,
     cli |-> IF x.res.exc # "none"
             THEN [out EXCEPT !.closes = x.res.connCloses, !.closeRaised = TRUE,
                              !.exit = 1, !.report = "error"]
             ELSE [out EXCEPT !.closes = x.res.connCloses]]

\* export_all from the loop on: acc is the loop's final state.
ExportAllLooped(c, tables, acc, env, out) ==
    Exit(__exit__(c, acc.eng, acc.files, env.closeFlt),
         [out EXCEPT !.tables = tables, !.attempted = acc.attempted,
                     !.failed = acc.failed, !.report = "all_exported"])

\* export_all after list_tables, whose outcome is l.
ExportAllListed(c, l, cat, run, env, out) ==
    IF l.res.exc # "none"
    THEN Exit(__exit__(c, l.eng, l.files, env.closeFlt), [out EXCEPT !.exit = 1, !.report = "error"])
    ELSE IF l.res.names = <<>>
    THEN Exit(__exit__(c, l.eng, l.files, env.closeFlt),
              [out EXCEPT !.listed = TRUE, !.report = "none_found"])
    ELSE ExportAllLooped(c, l.res.names,
            ExportEach(c, cat, l.res.names, 1, run,
                       [eng |-> l.eng, files |-> l.files, attempted |-> <<>>,
                        failed |-> <<>>]),
            env, [out EXCEPT !.listed = TRUE])

\* export_all after __enter__, whose open() ended as o.
ExportAllOpened(o, cat, run, env, out) ==
    IF o.res.exc # "none"
    THEN [conn |-> o.conn, eng |-> o.eng, files |-> o.files,
          cli |-> [out EXCEPT !.exit = 1, !.report = "error"]]
    ELSE ExportAllListed(o.conn, list_tables(o.conn, o.eng, cat, o.files, env.listFlt),
                         cat, run, env, [out EXCEPT !.opened = TRUE])

\* The command export-all in a fresh process: [conn, eng, files, cli].  env is
\* what the run meets: whether the output directory can be made, the kind of
\* db_path, whether the engine opens it, the faults of the catalog scan and of
\* each table's export, and how the closing of the connection fails.
export_all(cat, fs, fmt, limit, env) ==
    IF ~env.mkdirOk \/ __init__(env.pathKind) # "none"
    THEN [conn |-> NoConn, eng |-> EngineInit, files |-> fs,
          cli |-> [BlankCli EXCEPT !.cmd = "export-all", !.fmt = fmt, !.limit = limit,
                                   !.exit = 1, !.report = "error"]]
    ELSE ExportAllOpened(open(NoConn, EngineInit, fs, env.openOk), cat,
                         [fmt |-> fmt, limit |-> limit, tableFlt |-> env.tableFlt], env,
                         [BlankCli EXCEPT !.cmd = "export-all", !.fmt = fmt, !.limit = limit])

\* A command that fails before its with block is entered, or in __enter__:
\* the constructor or open() raised, `except Exception` exits 1.
NotEntered(o, out) ==
    [conn |-> o.conn, eng |-> o.eng, files |-> o.files,
     cli |-> [out EXCEPT !.exit = 1, !.report = "error"]]

\* The command list-tables after list_tables, whose outcome is l.
ListTablesListed(c, l, env, out) ==
    Exit(__exit__(c, l.eng, l.files, env.closeFlt),
         IF l.res.exc # "none"
         THEN [out EXCEPT !.exit = 1, !.report = "error"]
         ELSE [out EXCEPT !.listed = TRUE, !.tables = l.res.names,
                          !.report = IF l.res.names = <<>> THEN "none_found" ELSE "found"])

\* The command list-tables after __enter__, whose open() ended as o.
ListTablesOpened(o, cat, env, out) ==
    IF o.res.exc # "none" THEN NotEntered(o, out)
    ELSE ListTablesListed(o.conn, list_tables(o.conn, o.eng, cat, o.files, env.listFlt),
                          env, [out EXCEPT !.opened = TRUE])

\* The command list-tables in a fresh process.
cli_list_tables(cat, fs, env) ==
    IF __init__(env.pathKind) # "none"
    THEN NotEntered(Construct(EngineInit, fs, env.pathKind),
                    [BlankCli EXCEPT !.cmd = "list-tables"])
    ELSE ListTablesOpened(open(NoConn, EngineInit, fs, env.openOk), cat, env,
                          [BlankCli EXCEPT !.cmd = "list-tables"])

\* The command info after get_table_info, whose outcome is g: a count error is
\* printed as a warning, a table that does not exist is no error.
InfoInspected(c, g, env, out) ==
    Exit(__exit__(c, g.eng, g.files, env.closeFlt),
         IF g.res.exc # "none"
         THEN [out EXCEPT !.exit = 1, !.report = "error"]
         ELSE [out EXCEPT !.inspected = TRUE,
                          !.report = IF ~g.res.info.exists THEN "does_not_exist"
                                     ELSE IF g.res.info.error # <<>> THEN "warning"
                                     ELSE "info"])

\* The command info after __enter__, whose open() ended as o.
InfoOpened(o, cat, table_name, flt, env, out) ==
    IF o.res.exc # "none" THEN NotEntered(o, out)
    ELSE InfoInspected(o.conn, get_table_info(o.conn, o.eng, cat, o.files, table_name, flt),
                       env, [out EXCEPT !.opened = TRUE])

\* The command info in a fresh process; flt is the fault get_table_info meets.
info(cat, fs, table_name, flt, env) ==
    IF __init__(env.pathKind) # "none"
    THEN NotEntered(Construct(EngineInit, fs, env.pathKind),
                    [BlankCli EXCEPT !.cmd = "info", !.table = table_name])
    ELSE InfoOpened(open(NoConn, EngineInit, fs, env.openOk), cat, table_name, flt, env,
                    [BlankCli EXCEPT !.cmd = "info", !.table = table_name])

\* The export of the command export: by format.
ExportByFormat(c, l, cat, table_name, output_file, run) ==
    IF run.fmt = "json"
    THEN export_table_to_json(c, l.eng, cat, l.files, table_name, output_file,
                              run.limit, run.flt)
    ELSE export_table_to_csv(c, l.eng, cat, l.files, table_name, output_file,
                             run.limit, run.flt)

\* The command export after its export call, whose outcome is r.
ExportExported(c, r, table_name, env, out) ==
    Exit(__exit__(c, r.eng, r.files, env.closeFlt),
         IF r.res.exc # "none"
         THEN [out EXCEPT !.attempted = <<table_name>>, !.failed = <<table_name>>,
                          !.exit = 1, !.report = "error"]
         ELSE [out EXCEPT !.attempted = <<table_name>>, !.report = "completed"])

\* `table_name not in tables`
NotIn(table_name, tables) == \A i \in 1..Len(tables) : tables[i] # table_name

\* The table check of the command export skipped
ExportListedUnchecked(c, l, cat, table_name, output_file, run, env, out) ==
    IF l.res.exc # "none"
    THEN Exit(__exit__(c, l.eng, l.files, env.closeFlt),
              [out EXCEPT !.exit = 1, !.report = "error"])
    ELSE ExportExported(c, ExportByFormat(c, l, cat, table_name, output_file, run),
                        table_name, env,
                        [out EXCEPT !.listed = TRUE, !.tables = l.res.names])

\* The command export after list_tables, whose outcome is l: sys.exit(1) inside
\* the with block when the table is not listed.
ExportListed(c, l, cat, table_name, output_file, run, env, out) ==
    IF l.res.exc # "none"
    THEN Exit(__exit__(c, l.eng, l.files, env.closeFlt),
              [out EXCEPT !.exit = 1, !.report = "error"])
    ELSE IF NotIn(table_name, l.res.names)
    THEN Exit(__exit__(c, l.eng, l.files, env.closeFlt),
              [out EXCEPT !.listed = TRUE, !.tables = l.res.names,
                          !.exit = 1, !.report = "not_found"])
    ELSE ExportExported(c, ExportByFormat(c, l, cat, table_name, output_file, run),
                        table_name, env,
                        [out EXCEPT !.listed = TRUE, !.tables = l.res.names])

\* The command export after __enter__, whose open() ended as o.
ExportOpened(o, cat, table_name, output_file, run, env, out) ==
    IF o.res.exc # "none" THEN NotEntered(o, out)
    ELSE ExportListed(o.conn, list_tables(o.conn, o.eng, cat, o.files, env.listFlt),
                      cat, table_name, output_file, run, env,
                      [out EXCEPT !.opened = TRUE])

\* The command export in a fresh process; run is [fmt, limit, flt], flt the
\* fault the export call meets.
export(cat, fs, table_name, output_file, run, env) ==
    IF __init__(env.pathKind) # "none"
    THEN NotEntered(Construct(EngineInit, fs, env.pathKind),
                    [BlankCli EXCEPT !.cmd = "export", !.table = table_name,
                                     !.fmt = run.fmt, !.limit = run.limit])
    ELSE ExportOpened(open(NoConn, EngineInit, fs, env.openOk), cat, table_name,
                      output_file, run, env,
                      [BlankCli EXCEPT !.cmd = "export", !.table = table_name,
                                       !.fmt = run.fmt, !.limit = run.limit])

\* The faults one table's export meets in a run of export-all.
CliFaults ==
    {NoFault, [kind |-> "cur_open", at |-> 0], [kind |-> "cur_iter", at |-> 1],
     [kind |-> "file_open", at |-> 0], [kind |-> "file_write", at |-> 1]}

\* The number of tables of the catalog.
NumTables == Cardinality({i \in 1..Len(MetaEntries) : StartsWith(MetaEntries[i].key, TablePrefix)})

\* A run that meets tf in its exports and cf when it closes the connection.
CliEnv(tf, cf) ==
    [mkdirOk |-> TRUE, pathKind |-> "dir", openOk |-> TRUE, listFlt |-> NoFault,
     tableFlt |-> tf, closeFlt |-> cf]

\* What a run of a command can meet: faults in the exports and the close, or
\* one failure before the exports.
CliEnvs ==
    LET quiet == CliEnv([i \in 1..NumTables |-> NoFault], "none") IN
    {CliEnv(tf, cf) : tf \in [1..NumTables -> CliFaults],
                      cf \in {"none", "raise_live", "raise_released"}}
        \cup {[quiet EXCEPT !.mkdirOk = FALSE], [quiet EXCEPT !.openOk = FALSE]}
        \cup {[quiet EXCEPT !.pathKind = "file"]}
        \cup {[quiet EXCEPT !.listFlt = f, !.closeFlt = cf] :
                f \in MetaFaults, cf \in {"none", "raise_live"}}

\* What a run of a command other than export-all can meet before and after
\* its one data call.
CommandEnvs ==
    {e \in CliEnvs : e.mkdirOk /\ \A i \in 1..NumTables : e.tableFlt[i] = NoFault}

\* ------------------------------------------------------------ specification

Init ==
    /\ conn = NoConn
    /\ engine = EngineInit
    /\ catalog \in {MetaEntries, Reverse(MetaEntries)}
    /\ files = [p \in {} |-> JsonCutOff]
    /\ last = BlankResult
    /\ cli = BlankCli
    /\ codec = NoCodec

\* A library call with the outcome r.
Call(r) ==
    /\ conn' = r.conn
    /\ engine' = r.eng
    /\ files' = r.files
    /\ last' = r.res
    /\ UNCHANGED <<catalog, cli, codec>>

\* A browser is constructed in place of one that is Closed and has left no
\* connection behind.
New ==
    /\ conn = NoConn
    /\ engine.live = {}
    /\ \E pathKind \in {"dir", "file", "missing"} :
            Call(Construct(engine, files, pathKind))

Open ==
    \E ok \in BOOLEAN :
        /\ ok => engine.next <= MaxConns
        /\ Call(open(conn, engine, files, ok))

Close ==
    \E flt \in {"none", "raise_live", "raise_released"} :
        Call(close(conn, engine, files, flt))

ListTables ==
    \E flt \in {NoFault} \cup MetaFaults :
        Call(list_tables(conn, engine, catalog, files, flt))

GetTableInfo ==
    \E name \in ArgNames, flt \in {NoFault} \cup MetaFaults \cup ScanFaults :
        Call(get_table_info(conn, engine, catalog, files, name, flt))

ExportJson ==
    \E name \in ExportNames, path \in OutPaths, limit \in Limits,
       flt \in {NoFault} \cup ScanFaults \cup FileFaults :
        Call(export_table_to_json(conn, engine, catalog, files, name, path, limit, flt))

ExportCsv ==
    \E name \in ExportNames, path \in OutPaths, limit \in Limits,
       flt \in {NoFault} \cup ScanFaults \cup FileFaults :
        Call(export_table_to_csv(conn, engine, catalog, files, name, path, limit, flt))

Next == New \/ Open \/ Close \/ ListTables \/ GetTableInfo \/ ExportJson \/ ExportCsv

Spec == Init /\ [][Next]_vars

\* A command of cli.py with the outcome r.
Command(r) ==
    /\ conn' = r.conn
    /\ engine' = r.eng
    /\ files' = r.files
    /\ cli' = r.cli
    /\ last' = BlankResult
    /\ UNCHANGED <<catalog, codec>>

\* export-all into a new output directory
CliExportAll ==
    /\ cli.cmd = "none"
    /\ DOMAIN files = {}
    /\ \E fmt \in {"json", "csv"}, limit \in Limits, env \in CliEnvs :
            Command(export_all(catalog, files, fmt, limit, env))

\* Every command is a process of its own and starts without a connection,
\* whatever ran before it: the commands are run one at a time from a workspace
\* that StartOver has cleaned.

\* list-tables
CliListTables ==
    /\ cli.cmd = "none"
    /\ \E env \in CommandEnvs : Command(cli_list_tables(catalog, files, env))

\* info <table>
CliInfo ==
    /\ cli.cmd = "none"
    /\ \E name \in ArgNames, flt \in {NoFault} \cup MetaFaults \cup ScanFaults,
          env \in {e \in CommandEnvs : e.listFlt = NoFault} :
            Command(info(catalog, files, name, flt, env))

\* export <table> <output_file>, the output file not there yet
CliExport ==
    /\ cli.cmd = "none"
    /\ DOMAIN files = {}
    /\ \E name \in ExportNames, path \in OutPaths, fmt \in {"json", "csv"},
          limit \in Limits, flt \in CliFaults, env \in CommandEnvs :
            Command(export(catalog, files, name, path,
                           [fmt |-> fmt, limit |-> limit, flt |-> flt], env))

\* The user removes the output of the last command and starts over.
StartOver ==
    /\ cli.cmd # "none"
    /\ conn' = NoConn
    /\ engine' = EngineInit
    /\ files' = [p \in {} |-> JsonCutOff]
    /\ last' = BlankResult
    /\ cli' = BlankCli
    /\ UNCHANGED <<catalog, codec>>

NextCli == CliListTables \/ CliInfo \/ CliExport \/ CliExportAll \/ StartOver

\* The commands of cli.py, each run a process of its own.
SpecCli == Init /\ [][NextCli]_vars

\* _serialize_value reads and writes no state of the browser: each call is taken
\* from the initial state.

\* _serialize_value on a bytes or bytearray value
SerializeBytes ==
    /\ ~codec.called
    /\ \E value \in ByteValues : codec' = Serialized(value)
    /\ UNCHANGED <<conn, engine, catalog, files, last, cli>>

\* _serialize_value on a tuple
SerializeTuple ==
    /\ ~codec.called
    /\ \E value \in TupleValues : codec' = Serialized(value)
    /\ UNCHANGED <<conn, engine, catalog, files, last, cli>>

\* _serialize_value on an int or a str
SerializeScalar ==
    /\ ~codec.called
    /\ \E value \in ScalarValues : codec' = Serialized(value)
    /\ UNCHANGED <<conn, engine, catalog, files, last, cli>>

NextCodec == SerializeBytes \/ SerializeTuple \/ SerializeScalar

\* The calls of _serialize_value, on every value of the bounded sets.
SpecCodec == Init /\ [][NextCodec]_vars

\* ------------------------------------------------------------------- claims
DataOps == {"list_tables", "get_table_info", "export_table_to_json", "export_table_to_csv"}
ExportOps == {"export_table_to_json", "export_table_to_csv"}

\* The last call ran on an Open session and met no engine or file fault.
RanClean == last.exc # NotConnected /\ last.fault = "none"

\* The names of the metadata keys that start with "table:", the prefix stripped.
CatalogTableNames ==
    { SubSeq(catalog[i].key, Len(TablePrefix) + 1, Len(catalog[i].key)) :
        i \in { j \in 1..Len(catalog) : StartsWith(catalog[j].key, TablePrefix) } }

\* The first n records of a table as the exports render them, in cursor order.
FirstRendered(table_name, n) ==
    [i \in 1..Min(n, Len(Rows(table_name))) |-> Rendered(Rows(table_name)[i])]

\* The file an export of n records of a table leaves at the output path.
ExportedFile(op, table_name, n) ==
    IF op = "export_table_to_json"
    THEN JsonDoc(table_name, Min(n, Len(Rows(table_name))), FirstRendered(table_name, n))
    ELSE CsvFile(<<CsvHeader>>, FirstRendered(table_name, n))

\* C1: in state Closed each of list_tables, get_table_info, export_table_to_json
\* and export_table_to_csv fails with the "not connected" error, opens no engine
\* session, and creates or modifies no output file.
C1_ClosedCallsFail ==
    [][(conn = NoConn /\ last'.op \in DataOps)
        => /\ last'.exc = NotConnected
           /\ last'.sessOpened = 0
           /\ engine' = engine
           /\ files' = files
           /\ conn' = NoConn]_vars

\* C1 witness: an export was refused on a session closed again after an earlier
\* export had left a file.
C1_Witness ==
    /\ conn = NoConn
    /\ last.op \in ExportOps
    /\ last.exc = NotConnected
    /\ engine.next > 1
    /\ DOMAIN files # {}

\* C2 as claimed: an export with a limit k >= 0 that returns has written exactly
\* the first min(k, N) records of the table, never more than k.
C2_LimitedExportWritesMin ==
    (last.op \in ExportOps /\ last.exc = "none" /\ last.limit.some /\ last.limit.n >= 0)
        => /\ last.count = Min(last.limit.n, Len(Rows(last.table)))
           /\ last.count <= last.limit.n
           /\ files[last.path] = ExportedFile(last.op, last.table, last.limit.n)

\* C3: an export of an existing table with limit=None that meets no fault writes
\* exactly the N records of the table in cursor order: a JSON document with
\* record_count N and N records, a CSV file with the header row and N data rows.
C3_UnlimitedExportWritesAll ==
    (/\ last.op \in ExportOps
     /\ ~last.limit.some
     /\ RanClean
     /\ TableExists(catalog, last.table))
        => /\ last.exc = "none"
           /\ last.count = Len(Rows(last.table))
           /\ Len(files[last.path].records) = Len(Rows(last.table))
           /\ files[last.path] = ExportedFile(last.op, last.table, Len(Rows(last.table)))

\* C3 witness: an unlimited CSV export of table a wrote all its records.
C3_Witness ==
    /\ last.op = "export_table_to_csv"
    /\ ~last.limit.some
    /\ last.exc = "none"
    /\ last.table = <<97>>
    /\ Len(files[last.path].records) = MaxRecords

\* C4: get_table_info of a table of the catalog whose scans meet no fault returns
\* exists=true, the catalog's raw configuration string of the table, the number
\* N of its records, and no error field.
C4_InfoOfExistingTable ==
    (last.op = "get_table_info" /\ RanClean /\ TableExists(catalog, last.table))
        => /\ last.exc = "none"
           /\ last.info.name = last.table
           /\ last.info.exists
           /\ \E i \in 1..Len(catalog) :
                /\ catalog[i].key = TablePrefix \o last.table
                /\ last.info.config = <<catalog[i].value>>
           /\ last.info.record_count = Len(Rows(last.table))
           /\ last.info.error = <<>>

\* C4 witness: the records of table a were counted.
C4_Witness ==
    /\ last.op = "get_table_info"
    /\ last.exc = "none"
    /\ last.table = <<97>>
    /\ last.info.record_count = MaxRecords
    /\ last.info.error = <<>>

\* C5: get_table_info of a name the catalog lacks, on an Open session whose
\* catalog scan meets no engine fault, raises nothing and returns exists=false,
\* config=None, record_count=0 and no error field; and in every TableInfo
\* returned exists=false implies config=None and record_count=0, and an error
\* field is present only with exists=true.
C5_InfoOfMissingTable ==
    /\ (last.op = "get_table_info" /\ RanClean /\ ~TableExists(catalog, last.table))
        => /\ last.exc = "none"
           /\ last.info = [name |-> last.table, exists |-> FALSE, config |-> <<>>,
                           record_count |-> 0, error |-> <<>>]
    /\ (last.op = "get_table_info" /\ last.exc = "none")
        => /\ ~last.info.exists => (last.info.config = <<>> /\ last.info.record_count = 0)
           /\ last.info.error # <<>> => last.info.exists

\* C5 witness: get_table_info returned for the name zz.
C5_Witness ==
    /\ last.op = "get_table_info"
    /\ last.table = <<122, 122>>
    /\ last.exc = "none"
    /\ ~last.info.exists

\* C6: when the table exists and opening or iterating its cursor raises during
\* the count scan, get_table_info raises nothing: it returns exists=true, the
\* table's config and a non-empty error message, and the browser stays Open.
C6_ScanErrorIsCaught ==
    (last.op = "get_table_info" /\ last.fault \in {"cur_open", "cur_iter"})
        => /\ last.exc = "none"
           /\ last.info.exists
           /\ \E i \in 1..Len(catalog) :
                /\ catalog[i].key = TablePrefix \o last.table
                /\ last.info.config = <<catalog[i].value>>
           /\ Len(last.info.error) = 1
           /\ Len(last.info.error[1]) > 0
           /\ conn # NoConn
           /\ conn \in engine.live

\* C6 witness: the count scan failed while the table cursor was iterated, and
\* get_table_info returned an error message.
C6_Witness ==
    /\ last.op = "get_table_info"
    /\ last.fault = "cur_iter"
    /\ last.info.error # <<>>

\* C7 as claimed: when the count scan fails after m records, record_count is m.
C7_CountUpToFailure ==
    (last.op = "get_table_info" /\ last.fault = "cur_iter")
        => last.info.record_count = last.read

\* C7 amended: when the count scan fails after m records, record_count is 0,
\* the value the info dictionary starts with, whatever m is.
C7_CountIsZeroOnFailure ==
    (last.op = "get_table_info" /\ last.fault \in {"cur_open", "cur_iter"})
        => last.info.record_count = 0

\* C7 witness: the count scan failed after at least one record was read.
C7_Witness ==
    /\ last.op = "get_table_info"
    /\ last.fault = "cur_iter"
    /\ last.read >= 1
    /\ last.exc = "none"

\* C8: in export-all, when opening the database and list_tables succeeded, the
\* export of every listed table is attempted, in list order, however many of
\* the exports raise, and the command exits with code 0 (the closing of the
\* connection at the end of the with block raising nothing).
C8_ExportAllIsolatesFailures ==
    (cli.cmd = "export-all" /\ cli.opened /\ cli.listed)
        => /\ cli.attempted = cli.tables
           /\ \A i \in 1..Len(cli.failed) :
                \E j \in 1..Len(cli.attempted) : cli.attempted[j] = cli.failed[i]
           /\ ~cli.closeRaised => cli.exit = 0

\* C8 witness: the exports of the first two tables raised, the third was
\* exported, and the command exited with code 0.
C8_Witness ==
    /\ cli.cmd = "export-all"
    /\ cli.exit = 0
    /\ Len(cli.tables) = 3
    /\ cli.failed = SubSeq(cli.tables, 1, 2)
    /\ cli.attempted = cli.tables
    /\ cli.fmt = "csv"
    /\ OutputDir \o <<47>> \o cli.tables[3] \o <<46, 99, 115, 118>> \in DOMAIN files

\* C9: on an Open session list_tables returns a strictly ascending sequence
\* without duplicates whose names are exactly the metadata keys that start with
\* "table:", the prefix stripped; no entry of another namespace appears.
C9_ListIsSortedTableNames ==
    (last.op = "list_tables" /\ last.exc = "none")
        => /\ \A i \in 1..(Len(last.names) - 1) : StrLess(last.names[i], last.names[i + 1])
           /\ \A i, j \in 1..Len(last.names) : i # j => last.names[i] # last.names[j]
           /\ { last.names[i] : i \in 1..Len(last.names) } = CatalogTableNames

\* C9 witness: list_tables returned the three tables from a catalog the engine
\* iterates in descending key order.
C9_Witness ==
    /\ last.op = "list_tables"
    /\ last.exc = "none"
    /\ Len(last.names) = 3
    /\ catalog = Reverse(MetaEntries)

\* C10: close() on a Closed session, a second close() right after a first that
\* returned included, raises nothing, leaves the session Closed and makes no
\* call of the engine's connection close.
C10_CloseIsIdempotent ==
    [][((conn = NoConn \/ (last.op = "close" /\ last.exc = "none")) /\ last'.op = "close")
        => /\ last'.exc = "none"
           /\ last'.connCloses = 0
           /\ conn' = NoConn
           /\ engine' = engine]_vars

\* C10 witness: close() was called on a session closed before.
C10_Witness ==
    /\ conn = NoConn
    /\ last.op = "close"
    /\ last.exc = "none"
    /\ last.connCloses = 0
    /\ engine.next > 1

\* C11: on a Closed session, establishing a connection either succeeds, and
\* then open() leaves the session Open on a connection the engine has just
\* created, or fails with an error (FileNotFoundError or ValueError from the
\* constructor, RuntimeError from open()), and then the session is Closed and
\* the engine holds no connection it did not hold before.
C11_OpenSucceedsOrStaysClosed ==
    [][(conn = NoConn /\ last'.op \in {"__init__", "open"})
        => IF last'.exc = "none"
           THEN IF last'.op = "open"
                THEN conn' # NoConn /\ conn' \notin engine.live
                     /\ engine'.live = engine.live \cup {conn'}
                ELSE conn' = NoConn /\ engine' = engine
           ELSE /\ conn' = NoConn
                /\ engine' = engine
                /\ last'.exc \in {"FileNotFoundError", "ValueError",
                                  "RuntimeError: Failed to open WiredTiger database"}]_vars

\* C11 witness: the engine has rejected the directory, the session is Closed and
\* no connection is live.
C11_Witness ==
    /\ last.op = "open"
    /\ last.fault = "wiredtiger_open"
    /\ conn = NoConn
    /\ engine.live = {}

\* C12: at most one connection is live, and a live connection is the one the
\* browser holds in conn.
C12_AtMostOneLiveConnection ==
    /\ Cardinality(engine.live) <= 1
    /\ \A k \in engine.live : k = conn

\* The commands whose with block calls list_tables first.
ListingCmds == {"list-tables", "export", "export-all"}

\* C13: a command that entered its with block has called close() on the way
\* out, however the block was left (normally, by an exception of an operation,
\* by sys.exit), and unless the engine's close itself raised the session is
\* Closed and no engine connection is live.
C13_ScopeExitClosesConnection ==
    cli.opened
        => /\ cli.closes = 1
           /\ ~cli.closeRaised => (conn = NoConn /\ engine.live = {})

\* C13 witness: export left its with block by sys.exit(1), the table not being
\* listed, and the connection was closed.
C13_Witness ==
    /\ cli.cmd = "export"
    /\ cli.report = "not_found"
    /\ cli.opened
    /\ cli.closes = 1
    /\ conn = NoConn
    /\ engine.live = {}
    /\ engine.next = 2

\* C14: every operation closes the engine session it opened, exactly once and
\* before it returns or raises, whatever the exit path; an operation that
\* passes the connection check and gets a session opens exactly one; no session
\* is open between operations.
C14_SessionsAreClosed ==
    /\ engine.sessions = 0
    /\ last.sessClosed = last.sessOpened
    /\ (last.op \in DataOps /\ last.exc # NotConnected /\ last.fault # "session")
            => last.sessOpened = 1

\* C14 witness: a CSV export whose file write failed partway has opened and
\* closed its session.
C14_Witness ==
    /\ last.op = "export_table_to_csv"
    /\ last.fault = "file_write"
    /\ last.read >= 1
    /\ last.sessOpened = 1
    /\ last.sessClosed = 1
    /\ engine.sessions = 0

C16_MissingTableExportWritesNothing ==
    [][(/\ last'.op \in ExportOps
        /\ conn # NoConn
        /\ conn \in engine.live
        /\ last'.table \notin CatalogTableNames)
        => /\ last'.exc # "none"
           /\ last'.read = 0
           /\ last'.curOpened = 0
           /\ files' = files]_vars

\* C16 witness: an export of a missing table has failed while the output path
\* holds the file of an earlier export.
C16_Witness ==
    /\ last.op \in ExportOps
    /\ last.fault = "no_such_table"
    /\ last.table \notin CatalogTableNames
    /\ last.path \in DOMAIN files
    /\ files[last.path].wellformed

\* C17: when the cursor fails partway through an export, the export raises and
\* leaves no file of its own at the output path (neither export ever marks a
\* file as partial): the file system is as it was before the call.
C17_ScanFailureLeavesNoFile ==
    [][(last'.op \in ExportOps /\ last'.fault = "cur_iter")
        => /\ last'.exc # "none"
           /\ files' = files]_vars

\* C18: a JSON export whose write fails partway leaves the file system as it
\* was: no truncated document at the output path, and a file that was there
\* before is still there unchanged.
C18_JsonWriteIsAllOrNothing ==
    [][(last'.op = "export_table_to_json" /\ last'.fault = "file_write")
        => files' = files]_vars

\* The path of the file export-all writes for a table.
FileOf(table, fmt) ==
    OutputDir \o <<47>> \o table
        \o (IF fmt = "json" THEN <<46, 106, 115, 111, 110>> ELSE <<46, 99, 115, 118>>)

\* C19: when every per-table export of export-all succeeded, the output
\* directory holds exactly the files <table>.<format> of the listed tables, each
\* of the format asked for, and each CSV file starts with the header key,value.
C19_ExportAllWritesOneFilePerTable ==
    (cli.cmd = "export-all" /\ cli.report = "all_exported" /\ cli.failed = <<>>)
        => /\ DOMAIN files = {FileOf(cli.tables[i], cli.fmt) : i \in 1..Len(cli.tables)}
           /\ Cardinality(DOMAIN files) = Len(cli.tables)
           /\ \A p \in DOMAIN files :
                /\ files[p].fmt = cli.fmt
                /\ files[p].wellformed
                /\ cli.fmt = "csv" => files[p].header = <<CsvHeader>>

\* C19 witness: export-all to CSV wrote the three tables' files, none failing.
C19_Witness ==
    /\ cli.cmd = "export-all"
    /\ cli.fmt = "csv"
    /\ cli.report = "all_exported"
    /\ cli.failed = <<>>
    /\ Len(cli.tables) = 3
    /\ Cardinality(DOMAIN files) = 3
    /\ cli.exit = 0

\* An error reached the handler of the command, or export found its table
\* missing from the list.
CommandFailed ==
    \/ ~cli.opened
    \/ cli.closeRaised
    \/ cli.cmd \in ListingCmds /\ ~cli.listed
    \/ cli.cmd = "info" /\ ~cli.inspected
    \/ cli.cmd = "export" /\ (NotIn(cli.table, cli.tables) \/ cli.failed # <<>>)

\* C20: a command exits with code 1 when an error reached its handler and with
\* code 0 otherwise; export of a table that list_tables does not return exits
\* 1, has called no export operation and created no output file, and has
\* closed the connection.
C20_ExitCodes ==
    cli.cmd # "none"
        => /\ cli.exit = (IF CommandFailed THEN 1 ELSE 0)
           /\ (cli.cmd = "export" /\ cli.listed /\ NotIn(cli.table, cli.tables))
                => /\ cli.exit = 1
                   /\ cli.attempted = <<>>
                   /\ DOMAIN files = {}
                   /\ cli.closes = 1
                   /\ ~cli.closeRaised => (conn = NoConn /\ engine.live = {})

\* C20 witness: export of a table that is not listed has exited 1 with the
\* output file absent and the connection closed.
C20_Witness ==
    /\ cli.cmd = "export"
    /\ cli.listed
    /\ NotIn(cli.table, cli.tables)
    /\ cli.exit = 1
    /\ cli.attempted = <<>>
    /\ DOMAIN files = {}
    /\ cli.closes = 1
    /\ ~cli.closeRaised
    /\ engine.live = {}

\* C21: an export-all run in which the export of a table raised does not end
\* with the report that all tables were exported (it ends with a tally of the
\* completed and the failed tables).
C21_FailedRunNotReportedComplete ==
    (cli.cmd = "export-all" /\ cli.failed # <<>>) => cli.report # "all_exported"

\* C22: close() called on an Open session leaves conn None, whether it returns
\* or raises.
C22_CloseAlwaysLeavesClosed ==
    [][(conn # NoConn /\ last'.op = "close") => conn' = NoConn]_vars

RECURSIVE Utf8Encode(_)
\* The UTF-8 encoding of a text of code points below U+10000.
Utf8Encode(t) ==
    IF t = <<>> THEN <<>>
    ELSE LET c == Head(t) IN
         (IF c < 128 THEN <<c>>
          ELSE IF c < 2048 THEN <<192 + (c \div 64), 128 + (c % 64)>>
          ELSE <<224 + (c \div 4096), 128 + ((c \div 64) % 64), 128 + (c % 64)>>)
            \o Utf8Encode(Tail(t))

\* The value of a lowercase hexadecimal digit, -1 for any other character.
HexValue(ch) ==
    IF ch >= 48 /\ ch <= 57 THEN ch - 48
    ELSE IF ch >= 97 /\ ch <= 102 THEN ch - 87
    ELSE 0 - 1

\* t is made of an even number of lowercase hexadecimal digits.
IsLowerHex(t) == Len(t) % 2 = 0 /\ \A i \in 1..Len(t) : HexValue(t[i]) >= 0

\* bytes.fromhex(t)
HexDecode(t) ==
    [i \in 1..(Len(t) \div 2) |-> 16 * HexValue(t[2 * i - 1]) + HexValue(t[2 * i])]

\* C23: for a byte-sequence value b, _serialize_value(b) is the text whose UTF-8
\* encoding is b when b is valid UTF-8, and otherwise two lowercase hexadecimal
\* digits per byte, from which hex-decoding gives b back.
C23_BytesRenderAsTextOrHex ==
    (codec.called /\ codec.value.t = "bytes")
        => IF Utf8Decode(codec.value.v).ok
           THEN Utf8Encode(codec.text) = codec.value.v
           ELSE /\ IsLowerHex(codec.text)
                /\ Len(codec.text) = 2 * Len(codec.value.v)
                /\ HexDecode(codec.text) = codec.value.v

\* C23 witness: the bytes c3 ff 41, which are not UTF-8, rendered as "c3ff41".
C23_Witness ==
    /\ codec.called
    /\ codec.value = BytesV(<<195, 255, 65>>)
    /\ codec.text = <<99, 51, 102, 102, 52, 49>>

\* ", ".join of the renderings _serialize_value gives the elements one by one
JoinedElements(es) ==
    Concat([i \in 1..Len(es) |->
                (IF i > 1 THEN <<44, 32>> ELSE <<>>) \o _serialize_value(es[i])])

\* C24: for a tuple value, _serialize_value returns the renderings
\* _serialize_value gives its elements, joined with ", " and wrapped in
\* parentheses.
C24_TupleRendersElementsWithCodec ==
    (codec.called /\ codec.value.t = "tuple")
        => codec.text = <<40>> \o JoinedElements(codec.value.v) \o <<41>>

\* The last call made first thing on a session just opened, in a directory
\* without files and with no fault.
FreshCall ==
    LET c == 1
        eng == [EngineInit EXCEPT !.next = 2, !.live = {1}]
        fs == [p \in {} |-> JsonCutOff]
    IN IF last.op = "list_tables" THEN list_tables(c, eng, catalog, fs, NoFault)
       ELSE IF last.op = "get_table_info"
           THEN get_table_info(c, eng, catalog, fs, last.table, NoFault)
       ELSE IF last.op = "export_table_to_json"
           THEN export_table_to_json(c, eng, catalog, fs, last.table, last.path,
                                     last.limit, NoFault)
       ELSE export_table_to_csv(c, eng, catalog, fs, last.table, last.path,
                                last.limit, NoFault)

\* A call that met no fault has the result, and leaves at its output path the
\* file, that it would have on a fresh session: nothing an earlier call did or
\* failed to do shows.
SameAsFresh ==
    (last.op \in DataOps /\ last.exc = "none" /\ last.fault = "none")
        => /\ last = FreshCall.res
           /\ last.op \in ExportOps => files[last.path] = FreshCall.files[last.path]

\* C25: an operation that raises on an Open session leaves the session Open on
\* the same connection and the engine as it was (no session left), and whatever
\* failed before it, a call that meets no fault returns what it returns on a
\* fresh session.
C25_FailedCallLeavesSessionIntact ==
    /\ [][(/\ conn # NoConn
           /\ conn \in engine.live
           /\ last'.op \in DataOps
           /\ last'.exc # "none")
            => (conn' = conn /\ engine' = engine /\ catalog' = catalog)]_vars
    /\ []SameAsFresh

\* C25 witness: get_table_info has returned the info of table a on a session on
\* which a JSON export had failed mid-write before.
C25_Witness ==
    /\ last.op = "get_table_info"
    /\ last.exc = "none"
    /\ last.fault = "none"
    /\ last.info.exists
    /\ last.info.record_count = MaxRecords
    /\ \E p \in DOMAIN files : ~files[p].wellformed

\* C26: a name is in the list list_tables returns if and only if get_table_info
\* of that name returns exists = TRUE, on the same catalog and session.
C26_ListedIffExists ==
    (last.op = "get_table_info" /\ last.exc = "none")
        => LET names == list_tables(conn, engine, catalog, files, NoFault).res.names IN
           last.info.exists <=> (\E i \in 1..Len(names) : names[i] = last.table)

\* C26 witness: get_table_info found the table c:d, whose name holds a colon.
C26_Witness ==
    /\ last.op = "get_table_info"
    /\ last.exc = "none"
    /\ last.table = <<99, 58, 100>>
    /\ last.info.exists

\* The export of the other format with the arguments of the last export.
OtherExport ==
    IF last.op = "export_table_to_json"
    THEN export_table_to_csv(conn, engine, catalog, files, last.table, last.path,
                             last.limit, NoFault)
    ELSE export_table_to_json(conn, engine, catalog, files, last.table, last.path,
                              last.limit, NoFault)

\* C27: an export that met no fault has written the same (key, value) pairs, in
\* the same order, as the export of the other format writes for the same table
\* and limit.
C27_JsonAndCsvAgree ==
    (last.op \in ExportOps /\ last.exc = "none" /\ last.fault = "none")
        => /\ OtherExport.res.exc = "none"
           /\ OtherExport.files[last.path].records = files[last.path].records

\* C27 witness: a CSV export of table a with limit 1 has written one row.
C27_Witness ==
    /\ last.op = "export_table_to_csv"
    /\ last.exc = "none"
    /\ last.fault = "none"
    /\ last.table = <<97>>
    /\ last.limit = [some |-> TRUE, n |-> 1]
    /\ Len(files[last.path].records) = 1

============================================================================
